---------------------------- MODULE Spec2Model ----------------------------
(***************************************************************************)
(* Model of screeps-get-object-status (src/get-object-status.js).          *)
(*                                                                         *)
(* The module exports one synchronous, stateless function,                 *)
(* getObjectStatus(object), and uses two pure helpers, getRoomNameFromXY   *)
(* and roomNameToXY.  The game engine (Game.rooms, Game.map, room.find,    *)
(* PathFinder.search) is the environment of the function: its state is     *)
(* drawn in Init and its answers are modelled at the lines that call it.   *)
(*                                                                         *)
(* JavaScript strings are sequences of one-character strings; JavaScript   *)
(* numbers are records so that NaN is a value of the same sort.            *)
(***************************************************************************)
EXTENDS Integers, Sequences, FiniteSets, TLC

VARIABLES
  pc,          \* position of the run: see Init and InitNames
  object,      \* the argument of getObjectStatus
  vision,      \* Game.rooms[roomName] is defined
  layout,      \* which structures the argument's room holds: see StructuresOf
  seed,        \* selects the table behind Game.map.getRoomStatus
  frame,       \* what the call did: outcome, locals and engine calls made
  input,       \* input of the room-name functions (SpecNames)
  name,        \* a room name, produced by getRoomNameFromXY or given
  decoded      \* result of roomNameToXY(name)

vars == <<pc, object, vision, layout, seed, frame, input, name, decoded>>

-----------------------------------------------------------------------------
(* JavaScript numbers and strings *)

Num(v) == [nan |-> FALSE, v |-> v]
NaN == [nan |-> TRUE, v |-> 0]

DigitChars == <<"0", "1", "2", "3", "4", "5", "6", "7", "8", "9">>
IsDigit(c) == \E i \in 1..10 : DigitChars[i] = c
DigitVal(c) == (CHOOSE i \in 1..10 : DigitChars[i] = c) - 1

\* String(n) for a non-negative integer n
RECURSIVE NatToStr(_)
NatToStr(n) ==
  IF n < 10 THEN <<DigitChars[n + 1]>>
  ELSE NatToStr(n \div 10) \o <<DigitChars[(n % 10) + 1]>>

\* the string a number becomes under "E" + x
NumToStr(a) ==
  IF a.nan THEN <<"N", "a", "N">>
  ELSE IF a.v < 0 THEN <<"-">> \o NatToStr(-a.v)
  ELSE NatToStr(a.v)

\* s.substring(from): from is clamped to the length of s (0-based)
Substring(s, from) ==
  IF from >= Len(s) THEN <<>> ELSE SubSeq(s, from + 1, Len(s))

\* s.charAt(i): the empty string when i is out of range (0-based)
CharAt(s, i) == IF i >= 0 /\ i < Len(s) THEN s[i + 1] ELSE ""

\* value of the longest prefix of decimal digits of s, acc being the value so far
RECURSIVE DigitsPrefix(_, _)
DigitsPrefix(s, acc) ==
  IF s = <<>> \/ ~IsDigit(Head(s)) THEN acc
  ELSE DigitsPrefix(Tail(s), 10 * acc + DigitVal(Head(s)))

\* parseInt(s, 10): optional sign, then the longest run of digits; NaN if none
ParseInt(s) ==
  LET signed == s # <<>> /\ Head(s) \in {"-", "+"}
      body == IF signed THEN Tail(s) ELSE s
  IN IF body = <<>> \/ ~IsDigit(Head(body)) THEN NaN
     ELSE IF signed /\ Head(s) = "-" THEN Num(-DigitsPrefix(body, 0))
     ELSE Num(DigitsPrefix(body, 0))

\* a >= k, a < k (false for NaN), a + k, -a - 1, a % k (sign of the dividend)
JsGe(a, k) == ~a.nan /\ a.v >= k
JsLt(a, k) == ~a.nan /\ a.v < k
JsAdd(a, k) == IF a.nan THEN NaN ELSE Num(a.v + k)
JsNegMinus1(a) == IF a.nan THEN NaN ELSE Num(-a.v - 1)
JsRem(a, k) ==
  IF a.nan THEN NaN
  ELSE IF a.v >= 0 THEN Num(a.v % k) ELSE Num(-((-a.v) % k))

-----------------------------------------------------------------------------
(* getRoomNameFromXY and roomNameToXY *)

getRoomNameFromXY_OffByOne(x, y) ==
  LET xStr == IF JsLt(x, 0) THEN <<"W">> \o NumToStr(JsAdd(JsNegMinus1(x), 1))
              ELSE <<"E">> \o NumToStr(x)
      yStr == IF JsLt(y, 0) THEN <<"N">> \o NumToStr(JsNegMinus1(y))
              ELSE <<"S">> \o NumToStr(y)
  IN xStr \o yStr

getRoomNameFromXY(x, y) ==
  LET xStr == IF JsLt(x, 0) THEN <<"W">> \o NumToStr(JsNegMinus1(x))
              ELSE <<"E">> \o NumToStr(x)
      yStr == IF JsLt(y, 0) THEN <<"N">> \o NumToStr(JsNegMinus1(y))
              ELSE <<"S">> \o NumToStr(y)
  IN xStr \o yStr

verticalPos_StrictCompare(xx) ==
  IF ~xx.nan /\ xx.v > 100 THEN 4 ELSE IF ~xx.nan /\ xx.v > 10 THEN 3 ELSE 2

\* index of the vertical direction letter, derived from the magnitude of xx
verticalPos(xx) ==
  IF JsGe(xx, 100) THEN 4 ELSE IF JsGe(xx, 10) THEN 3 ELSE 2

roomNameToXY(n) ==
  LET xx == ParseInt(Substring(n, 1))
      vp == verticalPos(xx)
      yy == ParseInt(Substring(n, vp + 1))
      horizontalDir == CharAt(n, 0)
      verticalDir == CharAt(n, vp)
      x2 == IF horizontalDir \in {"W", "w"} THEN JsNegMinus1(xx) ELSE xx
      y2 == IF verticalDir \in {"N", "n"} THEN JsNegMinus1(yy) ELSE yy
  IN <<x2, y2>>

-----------------------------------------------------------------------------
(* Engine constants used by getObjectStatus *)

STATUS_NORMAL == "normal"
STRUCTURE_WALL == "constructedWall"

\* direction constants; FIND_EXIT_TOP .. FIND_EXIT_LEFT have the same values,
\* which room.find(Number(direction)) relies on
TOP == 1
RIGHT == 3
BOTTOM == 5
LEFT == 7

\* largest local coordinate of a room
RoomMax == 49

Tiles == (0..RoomMax) \X (0..RoomMax)

\* terrain of the modelled rooms: the four corner tiles are natural walls
TerrainWalls == {<<0, 0>>, <<0, RoomMax>>, <<RoomMax, 0>>, <<RoomMax, RoomMax>>}

\* room.find(FIND_EXIT_<d>): the edge tiles of direction d that are open terrain
Exits(d) ==
  LET edge == IF d = TOP THEN {<<x, 0>> : x \in 0..RoomMax}
              ELSE IF d = RIGHT THEN {<<RoomMax, y>> : y \in 0..RoomMax}
              ELSE IF d = BOTTOM THEN {<<x, RoomMax>> : x \in 0..RoomMax}
              ELSE IF d = LEFT THEN {<<0, y>> : y \in 0..RoomMax}
              ELSE {}
  IN edge \ TerrainWalls

\* Game.map.getRoomStatus(n).status: a table over room names, selected by sd
Statuses == <<"normal", "novice", "respawn">>
RECURSIVE NameCode(_)
NameCode(n) ==
  IF n = <<>> THEN 0
  ELSE (IF IsDigit(Head(n)) THEN DigitVal(Head(n))
        ELSE IF Head(n) \in {"W", "w"} THEN 1
        ELSE IF Head(n) \in {"N", "n"} THEN 2
        ELSE 0) + NameCode(Tail(n))
getRoomStatus(sd, n) == Statuses[((NameCode(n) + sd) % 3) + 1]

-----------------------------------------------------------------------------
(* PathFinder.search(objectPos, goals, {roomCallback}) *)

Offsets ==
  {<<-1, -1>>, <<-1, 0>>, <<-1, 1>>, <<0, -1>>, <<0, 1>>, <<1, -1>>, <<1, 0>>, <<1, 1>>}
Adjacent(p) == {<<p[1] + d[1], p[2] + d[2]>> : d \in Offsets}

\* the goals first reached when the search front leaves `frontier`; `closed`
\* holds the tiles already reached and the tiles that may not be entered
RECURSIVE Nearest(_, _, _)
Nearest(frontier, closed, goalSet) ==
  IF frontier = {} THEN {}
  ELSE IF frontier \cap goalSet # {} THEN frontier \cap goalSet
  ELSE LET nxt == {q \in UNION {Adjacent(p) : p \in frontier} :
                     q \notin closed /\ q \in Tiles}
       IN Nearest(nxt, closed \cup nxt, goalSet)

\* The possible results {incomplete, path} of the search, the path given by its
\* last position alone (the only part getObjectStatus reads).  roomCallback
\* confines the search to the room and gives `costs`, the tiles set to 255.
\* The path never holds the origin: it is empty when the origin is a goal.
PathFinderSearch(origin, goalSet, costs) ==
  IF goalSet = {} THEN
    {[incomplete |-> b, path |-> <<>>] : b \in BOOLEAN}
  ELSE IF origin \in goalSet THEN
    {[incomplete |-> FALSE, path |-> <<>>]}
  ELSE
    LET near == Nearest({origin}, {origin} \cup costs \cup TerrainWalls, goalSet)
    IN IF near = {} THEN {[incomplete |-> TRUE, path |-> <<>>]}
       ELSE {[incomplete |-> FALSE, path |-> <<g>>] : g \in near}

-----------------------------------------------------------------------------
(* getObjectStatus *)

NoFrame ==
  [kind |-> "none", value |-> "", lookups |-> <<>>, visionRead |-> FALSE,
   enumerated |-> FALSE, searches |-> <<>>, exitWalls |-> <<>>,
   lastPos |-> <<>>, case |-> ""]

\* throw new Error(...), or the TypeError of reading a property of undefined
Throw(f, k) == [f EXCEPT !.kind = k]
\* return Game.map.getRoomStatus(n).status
ReturnStatusOf(f, sd, n) ==
  [f EXCEPT !.kind = "return", !.value = getRoomStatus(sd, n), !.lookups = Append(@, n)]

\* object.pos throws for null and undefined, the only values without properties
HasProperties(obj) == obj.kind # "null"
\* objectPos = object.pos || object  is an instance of RoomPosition
IsRoomPosition(obj) == obj.kind \in {"RoomPosition", "RoomObject"}

normalized(a) == IF JsLt(a, 0) THEN JsAdd(a, 1) ELSE a

isDirect_XOnly(roomX, roomY) == JsRem(normalized(roomX), 10) # Num(0)

\* the condition of the non-highway branch
isDirect(roomX, roomY) ==
  /\ JsRem(normalized(roomX), 10) # Num(0)
  /\ JsRem(normalized(roomY), 10) # Num(0)

Walls_AnyStructure(structs) == structs

\* the structures the forEach callback does not skip
Walls(structs) == {s \in structs : s.structureType = STRUCTURE_WALL}

\* the key under which the scan stores a wall at pos, 0 when it stores none
exitDirection(pos) ==
  IF pos[1] = 0 THEN LEFT
  ELSE IF pos[1] = RoomMax THEN RIGHT
  ELSE IF pos[2] = 0 THEN TOP
  ELSE IF pos[2] = RoomMax THEN BOTTOM
  ELSE 0

\* The maps exitWalls the scan can end with.  Each key keeps the last wall
\* found for it, and the order of room.find(FIND_STRUCTURES) is the engine's:
\* any wall of a key can be the one kept.  A wall is given by its pos.
exitWallsOf(structs) ==
  LET at(d) == {s.pos : s \in {w \in Walls(structs) : exitDirection(w.pos) = d}}
      dirs == {d \in {TOP, RIGHT, BOTTOM, LEFT} : at(d) # {}}
      pick(d) == IF at(d) = {} THEN {<<>>} ELSE at(d)
  IN {[d \in dirs |-> IF d = TOP THEN t ELSE IF d = RIGHT THEN r
                      ELSE IF d = BOTTOM THEN b ELSE l] :
        t \in pick(TOP), r \in pick(RIGHT), b \in pick(BOTTOM), l \in pick(LEFT)}

\* costs: the tiles set to 255
costsOf(structs) == {s.pos : s \in Walls(structs)}

isCase1(ew) ==
  TOP \in DOMAIN ew /\ BOTTOM \in DOMAIN ew /\ LEFT \notin DOMAIN ew /\ RIGHT \notin DOMAIN ew
isCase2(ew) ==
  LEFT \in DOMAIN ew /\ RIGHT \in DOMAIN ew /\ TOP \notin DOMAIN ew /\ BOTTOM \notin DOMAIN ew

\* the directions whose exits are the goals of the search
goalDirs(ew) ==
  IF isCase1(ew) THEN {TOP, BOTTOM}
  ELSE IF isCase2(ew) THEN {LEFT, RIGHT}
  ELSE DOMAIN ew
goals(ew) == UNION {Exits(d) : d \in goalDirs(ew)}

case1Wall(lastPos) == IF lastPos[2] = 0 THEN TOP ELSE BOTTOM
case1Dx(lastPos, wall) == IF lastPos[1] > wall[1] THEN 1 ELSE -1
case2Wall(lastPos) == IF lastPos[1] = 0 THEN LEFT ELSE RIGHT
case2Dy(lastPos, wall) == IF lastPos[2] > wall[2] THEN 1 ELSE -1

firstDirection(lastPos) ==
  IF lastPos[1] = 0 THEN LEFT
  ELSE IF lastPos[1] = RoomMax THEN RIGHT
  ELSE IF lastPos[2] = 0 THEN TOP
  ELSE BOTTOM

secondDirection(first, lastPos, wall) ==
  IF first = TOP \/ first = BOTTOM
  THEN (IF lastPos[1] > wall[1] THEN RIGHT ELSE LEFT)
  ELSE (IF lastPos[2] > wall[2] THEN BOTTOM ELSE TOP)

throwsIncomplete_Case1Only(c, sr) == sr.incomplete /\ c = "case1"

\* if (search.incomplete) throw ..., in each of the three cases
throwsIncomplete(c, sr) == sr.incomplete

\* the resolver after the search returned sr: the three cases
resolve(f0, sd, roomX, roomY, ew, sr) ==
  LET c == IF isCase1(ew) THEN "case1" ELSE IF isCase2(ew) THEN "case2" ELSE "case3"
      f1 == [f0 EXCEPT !.case = c, !.exitWalls = ew,
                       !.searches = Append(@, [goalDirs |-> goalDirs(ew),
                                               incomplete |-> sr.incomplete,
                                               path |-> sr.path])]
  IN IF throwsIncomplete(c, sr) THEN Throw(f1, "IncompleteSearch")
     ELSE IF sr.path = <<>> THEN Throw(f1, "TypeError")   \* lastPos is undefined
     ELSE
       LET lastPos == sr.path[Len(sr.path)]
           f2 == [f1 EXCEPT !.lastPos = <<lastPos>>]
       IN IF c = "case1" THEN
            LET wall == ew[case1Wall(lastPos)]
                dx == case1Dx(lastPos, wall)
            IN ReturnStatusOf(f2, sd, getRoomNameFromXY(JsAdd(roomX, dx), roomY))
          ELSE IF c = "case2" THEN
            LET wall == ew[case2Wall(lastPos)]
                dy == case2Dy(lastPos, wall)
            IN ReturnStatusOf(f2, sd, getRoomNameFromXY(roomX, JsAdd(roomY, dy)))
          ELSE
            LET first == firstDirection(lastPos)
            IN IF first \notin DOMAIN ew THEN Throw(f2, "TypeError")  \* wall is undefined
               ELSE
                 LET wall == ew[first]
                     directions == {first, secondDirection(first, lastPos, wall)}
                     dx == IF RIGHT \in directions THEN 1 ELSE -1
                     dy == IF BOTTOM \in directions THEN 1 ELSE -1
                 IN ReturnStatusOf(f2, sd,
                      getRoomNameFromXY(JsAdd(roomX, dx), JsAdd(roomY, dy)))

\* every frame a call of getObjectStatus(obj) can end with
framesOf(obj, vis, structs, sd) ==
  IF ~HasProperties(obj) THEN {Throw(NoFrame, "TypeError")}
  ELSE IF ~IsRoomPosition(obj) THEN {Throw(NoFrame, "InvalidInput")}
  ELSE
    LET roomName == obj.roomName
        xy == roomNameToXY(roomName)
        roomX == xy[1]
        roomY == xy[2]
    IN IF isDirect(roomX, roomY)
       THEN {ReturnStatusOf([NoFrame EXCEPT !.case = "direct"], sd, roomName)}
       ELSE
         LET f0 == [NoFrame EXCEPT !.visionRead = TRUE]
         IN IF ~vis THEN {Throw(f0, "NoVision")}
            ELSE
              LET f1 == [f0 EXCEPT !.enumerated = TRUE]
              IN IF Walls(structs) = {}
                 THEN {[f1 EXCEPT !.kind = "return", !.value = STATUS_NORMAL,
                                  !.case = "nowall"]}
                 ELSE UNION {
                        {resolve(f1, sd, roomX, roomY, ew, sr) :
                           sr \in PathFinderSearch(obj.pos, goals(ew), costsOf(structs))} :
                        ew \in exitWallsOf(structs)}

-----------------------------------------------------------------------------
(* The environment: rooms, structures, arguments *)

\* number of status tables beyond the first
MaxSeed == 1

\* room names with the coordinates the game gives them
RoomTable ==
  { [name |-> <<"E", "1", "0", "N", "0">>, x |-> 10, y |-> -1],
    [name |-> <<"E", "1", "0", "S", "5">>, x |-> 10, y |-> 5],
    [name |-> <<"W", "0", "S", "5">>, x |-> -1, y |-> 5],
    [name |-> <<"W", "1", "0", "N", "1", "0">>, x |-> -11, y |-> -11],
    [name |-> <<"W", "5", "N", "1", "0">>, x |-> -6, y |-> -11],
    [name |-> <<"E", "5", "S", "5">>, x |-> 5, y |-> 5],
    [name |-> <<"E", "9", "S", "5">>, x |-> 9, y |-> 5],
    [name |-> <<"E", "5", "S", "9">>, x |-> 5, y |-> 9],
    [name |-> <<"W", "9", "N", "9">>, x |-> -10, y |-> -10],
    [name |-> <<"W", "1", "1", "N", "5">>, x |-> -12, y |-> -6],
    [name |-> <<"E", "1", "0", "1", "S", "1", "5">>, x |-> 101, y |-> 15] }
RoomNames == {r.name : r \in RoomTable}
TrueXY(n) == LET r == CHOOSE r \in RoomTable : r.name = n IN <<r.x, r.y>>

Wall(p) == [structureType |-> STRUCTURE_WALL, pos |-> p]
Other(t, p) == [structureType |-> t, pos |-> p]
Column(w) == {Wall(<<w, y>>) : y \in 0..RoomMax}
Row(h) == {Wall(<<x, h>>) : x \in 0..RoomMax}
Box(c) == {Wall(<<c[1] + d[1], c[2] + d[2]>>) : d \in Offsets}
CornerL(w, h) == {Wall(<<w, y>>) : y \in 0..h} \cup {Wall(<<x, h>>) : x \in 0..w}
Roads == {Other("road", <<10, 0>>), Other("road", <<0, 30>>), Other("powerBank", <<25, 24>>)}

LayoutNames ==
  {"empty", "roads", "interiorWall", "column", "row", "columnBox", "rowBox",
   "corner", "cornerBox", "topStrip", "topWall", "cross"}
StructuresOf(l) ==
  CASE l = "empty" -> {}
    [] l = "roads" -> Roads
    [] l = "interiorWall" -> {Wall(<<30, 30>>)}
    [] l = "column" -> Column(10) \cup Roads
    [] l = "row" -> Row(10) \cup Roads
    [] l = "columnBox" -> Column(10) \cup Box(<<25, 25>>)
    [] l = "rowBox" -> Row(10) \cup Box(<<25, 25>>)
    [] l = "corner" -> CornerL(10, 10)
    [] l = "cornerBox" -> CornerL(10, 10) \cup Box(<<25, 25>>)
    [] l = "topStrip" -> {Wall(<<x, 0>>) : x \in 0..3}
    [] l = "topWall" -> {Wall(<<10, 0>>)} \cup Roads
    [] l = "cross" -> Column(25) \cup Row(25)

\* room.find(FIND_STRUCTURES) of the argument's room
structures == StructuresOf(layout)

QueryPoints ==
  {<<5, 25>>, <<40, 25>>, <<25, 25>>, <<5, 5>>, <<5, 0>>, <<0, 30>>}

\* null or undefined; 0, "" or false; a value without a position;
\* a RoomPosition; an object whose pos is a RoomPosition
Objects ==
  {[kind |-> k, pos |-> <<0, 0>>, roomName |-> <<>>] : k \in {"null", "falsy", "plain"}}
  \cup {[kind |-> "RoomPosition", pos |-> p, roomName |-> r] :
          p \in QueryPoints, r \in RoomNames}
  \cup {[kind |-> "RoomObject", pos |-> p, roomName |-> r] :
          p \in {<<5, 5>>}, r \in RoomNames}

getObjectStatus ==
  /\ pc = "idle"
  /\ \E f \in framesOf(object, vision, structures, seed) : frame' = f
  /\ pc' = "done"
  /\ UNCHANGED <<object, vision, layout, seed, input, name, decoded>>

Init ==
  /\ pc = "idle"
  /\ object \in Objects
  /\ vision \in BOOLEAN
  /\ layout \in LayoutNames
  /\ seed \in 0..MaxSeed
  /\ frame = NoFrame
  /\ input = <<>>
  /\ name = <<>>
  /\ decoded = <<>>

Next == getObjectStatus

Spec == Init /\ [][Next]_vars

-----------------------------------------------------------------------------
(* The room-name functions on their own *)

\* coordinates are drawn from -XLimit..XLimit
XLimit == 1001
\* most digits of n and of m in a given room name <H><n><V><m>
MaxNDigits == 4
MaxMDigits == 2

CoordYs == {-1001, -1000, -999, -101, -100, -11, -10, -1, 0, 1, 9, 10, 99, 100, 999, 1000}
NameDigits == {"0", "1", "9"}

RECURSIVE DigitSeqs(_)
DigitSeqs(k) ==
  IF k = 0 THEN {<<>>}
  ELSE {Append(s, c) : s \in DigitSeqs(k - 1), c \in NameDigits}
DigitSeqsUpTo(k) == UNION {DigitSeqs(i) : i \in 1..k}

NameParts ==
  {[h |-> h, nd |-> nd, v |-> v, md |-> md] :
     h \in {"E", "W", "w"}, nd \in DigitSeqsUpTo(MaxNDigits),
     v \in {"N", "S", "s"}, md \in DigitSeqsUpTo(MaxMDigits)}
NameOf(parts) == <<parts.h>> \o parts.nd \o <<parts.v>> \o parts.md

InitNames ==
  /\ object = [kind |-> "null", pos |-> <<0, 0>>, roomName |-> <<>>]
  /\ vision = FALSE
  /\ layout = "empty"
  /\ seed = 0
  /\ frame = NoFrame
  /\ decoded = <<>>
  /\ \/ /\ pc = "coord"
        /\ input \in (-XLimit..XLimit) \X CoordYs
        /\ name = <<>>
     \/ /\ pc = "name"
        /\ input \in NameParts
        /\ name = NameOf(input)

Encode ==
  /\ pc = "coord"
  /\ name' = getRoomNameFromXY(Num(input[1]), Num(input[2]))
  /\ pc' = "encoded"
  /\ UNCHANGED <<object, vision, layout, seed, frame, input, decoded>>

Decode ==
  /\ pc \in {"encoded", "name"}
  /\ decoded' = roomNameToXY(name)
  /\ pc' = IF pc = "encoded" THEN "roundtrip" ELSE "parsed"
  /\ UNCHANGED <<object, vision, layout, seed, frame, input, name>>

NextNames == Encode \/ Decode

SpecNames == InitNames /\ [][NextNames]_vars

-----------------------------------------------------------------------------
(* Vocabulary of the properties *)

Done == pc = "done"
ValidArg == object.kind \in {"RoomPosition", "RoomObject"}

\* the highway lattice, on the coordinates the game gives the room
Shifted(v) == IF v < 0 THEN v + 1 ELSE v
Highway(xy) == Shifted(xy[1]) % 10 = 0 \/ Shifted(xy[2]) % 10 = 0
InHighway == ValidArg /\ Highway(TrueXY(object.roomName))
InOrdinaryRoom == ValidArg /\ ~Highway(TrueXY(object.roomName))

\* the name of the room dx to the east and dy to the south of the argument's room
Neighbour(dx, dy) ==
  LET xy == TrueXY(object.roomName)
  IN getRoomNameFromXY(Num(xy[1] + dx), Num(xy[2] + dy))

Searched == frame.searches # <<>>
Completed == Searched /\ ~frame.searches[1].incomplete
Recorded == DOMAIN frame.exitWalls
HasFinalPoint == frame.lastPos # <<>>
Final == frame.lastPos[1]
WallStructures == {s \in structures : s.structureType = STRUCTURE_WALL}

\* the call returned the status of room n, looked up once
ReturnedStatusOf(n) ==
  /\ frame.kind = "return"
  /\ frame.lookups = <<n>>
  /\ frame.value = getRoomStatus(seed, n)

RoomE10N0 == <<"E", "1", "0", "N", "0">>
RoomE9N0 == <<"E", "9", "N", "0">>

-----------------------------------------------------------------------------
(* C1 *)

\* C1: for a position in a room that is not a highway room, getObjectStatus
\* returns the status-service value of that same room, reads no vision,
\* enumerates no structures and runs no path search; for a position in a
\* highway room the direct branch is not taken.
C1_DirectBranch ==
  Done =>
    /\ InOrdinaryRoom =>
         /\ frame.case = "direct"
         /\ ReturnedStatusOf(object.roomName)
         /\ ~frame.visionRead
         /\ ~frame.enumerated
         /\ ~Searched
    /\ InHighway => frame.case # "direct"

C1_Witness ==
  /\ Done
  /\ InOrdinaryRoom
  /\ ~vision
  /\ WallStructures # {}
  /\ TrueXY(object.roomName)[1] < 0
  /\ frame.kind = "return"

-----------------------------------------------------------------------------
(* C2 *)

\* C2: in a highway room with vision whose structure list holds no wall,
\* getObjectStatus returns "normal" whatever the status service reports, and
\* the path search is not invoked.
C2_NoWallIsNormal ==
  (Done /\ InHighway /\ vision /\ WallStructures = {}) =>
    /\ frame.kind = "return"
    /\ frame.value = "normal"
    /\ ~Searched

C2_Witness ==
  /\ Done /\ InHighway /\ vision
  /\ WallStructures = {}
  /\ structures # {}
  /\ getRoomStatus(seed, object.roomName) # "normal"
  /\ frame.value = "normal"

-----------------------------------------------------------------------------
(* C3 *)

\* the neighbour the claim names for two opposite walled edges
C3_Expected ==
  IF Recorded = {TOP, BOTTOM}
  THEN LET wall == frame.exitWalls[IF Final[2] = 0 THEN TOP ELSE BOTTOM]
       IN Neighbour(IF Final[1] > wall[1] THEN 1 ELSE -1, 0)
  ELSE LET wall == frame.exitWalls[IF Final[1] = 0 THEN LEFT ELSE RIGHT]
       IN Neighbour(0, IF Final[2] > wall[2] THEN 1 ELSE -1)

\* C3: when exactly two opposite edges carry exit walls and the search
\* completes, getObjectStatus returns the status of the neighbour one step
\* along one axis, chosen from the final path point and the reference wall;
\* final point (5,0) with TOP wall (10,0) in E10N0 resolves to E9N0.
C3_OppositeWalls ==
  (Done /\ InHighway /\ Completed /\ Recorded \in {{TOP, BOTTOM}, {LEFT, RIGHT}}) =>
    /\ HasFinalPoint
    /\ ReturnedStatusOf(C3_Expected)
    /\ (/\ object.roomName = RoomE10N0
        /\ Final = <<5, 0>>
        /\ Recorded = {TOP, BOTTOM}
        /\ frame.exitWalls[TOP] = <<10, 0>>) => frame.lookups = <<RoomE9N0>>

\* C3 restricted to the calls whose search returned a path with a final point
C3_OppositeWallsWithFinalPoint ==
  (Done /\ InHighway /\ Completed /\ HasFinalPoint
     /\ Recorded \in {{TOP, BOTTOM}, {LEFT, RIGHT}}) =>
    /\ ReturnedStatusOf(C3_Expected)
    /\ (/\ object.roomName = RoomE10N0
        /\ Final = <<5, 0>>
        /\ Recorded = {TOP, BOTTOM}
        /\ frame.exitWalls[TOP] = <<10, 0>>) => frame.lookups = <<RoomE9N0>>

C3_ExampleReached ==
  /\ Done /\ Completed /\ HasFinalPoint
  /\ object.roomName = RoomE10N0
  /\ Recorded = {TOP, BOTTOM}
  /\ Final = <<5, 0>>
  /\ frame.exitWalls[TOP] = <<10, 0>>
  /\ frame.lookups = <<RoomE9N0>>

-----------------------------------------------------------------------------
(* C4 *)

\* the diagonal neighbour the claim names for the corner case
C4_Expected ==
  LET first == IF Final[1] = 0 THEN LEFT
               ELSE IF Final[1] = RoomMax THEN RIGHT
               ELSE IF Final[2] = 0 THEN TOP
               ELSE BOTTOM
      wall == frame.exitWalls[first]
      second == IF first \in {TOP, BOTTOM}
                THEN (IF Final[1] > wall[1] THEN RIGHT ELSE LEFT)
                ELSE (IF Final[2] > wall[2] THEN BOTTOM ELSE TOP)
  IN Neighbour(IF RIGHT \in {first, second} THEN 1 ELSE -1,
               IF BOTTOM \in {first, second} THEN 1 ELSE -1)

C4_CornerCase ==
  /\ Done /\ InHighway /\ Completed
  /\ Recorded \notin {{TOP, BOTTOM}, {LEFT, RIGHT}}

\* C4: in the corner case (any exit-wall configuration other than exactly
\* TOP+BOTTOM or exactly LEFT+RIGHT) with a completed search, getObjectStatus
\* returns the status of the diagonal neighbour chosen from the final point
\* and the wall of the edge it sits on; final point (0,10) with LEFT wall
\* (0,0) gives the offset (-1,+1).
C4_Corner ==
  C4_CornerCase =>
    /\ HasFinalPoint
    /\ ReturnedStatusOf(C4_Expected)
    /\ (Final = <<0, 10>> /\ LEFT \in Recorded /\ frame.exitWalls[LEFT] = <<0, 0>>)
         => frame.lookups = <<Neighbour(-1, 1)>>

\* C4 restricted to the calls whose search returned a path with a final point
C4_CornerWithFinalPoint ==
  (C4_CornerCase /\ HasFinalPoint) =>
    /\ ReturnedStatusOf(C4_Expected)
    /\ (Final = <<0, 10>> /\ LEFT \in Recorded /\ frame.exitWalls[LEFT] = <<0, 0>>)
         => frame.lookups = <<Neighbour(-1, 1)>>

C4_ExampleReached ==
  /\ C4_CornerCase /\ HasFinalPoint
  /\ Final = <<0, 10>>
  /\ LEFT \in Recorded
  /\ frame.exitWalls[LEFT] = <<0, 0>>
  /\ frame.lookups = <<Neighbour(-1, 1)>>

-----------------------------------------------------------------------------
(* C5 *)

\* C5: in each of the three cases, when the path search reports incomplete,
\* getObjectStatus raises the incomplete-search error and returns no status:
\* no status lookup is made and no default value is returned.
C5_IncompleteRaises ==
  (Done /\ Searched /\ frame.searches[1].incomplete) =>
    /\ frame.kind = "IncompleteSearch"
    /\ frame.value = ""
    /\ frame.lookups = <<>>

C5_Witness ==
  /\ Done /\ Searched
  /\ frame.searches[1].incomplete
  /\ frame.case = "case2"
  /\ frame.kind = "IncompleteSearch"

C5_WitnessCase1 ==
  Done /\ Searched /\ frame.searches[1].incomplete /\ frame.case = "case1"

C5_WitnessCase3 ==
  Done /\ Searched /\ frame.searches[1].incomplete /\ frame.case = "case3"
    /\ Recorded # {}

-----------------------------------------------------------------------------
(* C6 *)

\* C6: every call of getObjectStatus, for any argument and any world state,
\* ends by returning a status string or by failing with the InvalidInput,
\* NoVision or IncompleteSearch error; no other failure occurs.
C6_FourOutcomes ==
  Done =>
    \/ frame.kind = "return" /\ frame.value \in {"normal", "novice", "respawn"}
    \/ frame.kind \in {"InvalidInput", "NoVision", "IncompleteSearch"}

-----------------------------------------------------------------------------
(* C7 *)

\* C7: for all integers x, y with |x| < 1000 and |y| < 1000,
\* roomNameToXY(getRoomNameFromXY(x, y)) = (x, y), the reflected encoding of
\* negative values included (x = -1 is W0, y = -1 is N0).
C7_RoundTrip ==
  (/\ pc = "roundtrip"
   /\ -1000 < input[1] /\ input[1] < 1000
   /\ -1000 < input[2] /\ input[2] < 1000) =>
    decoded = <<Num(input[1]), Num(input[2])>>

C7_Witness ==
  /\ pc = "roundtrip"
  /\ input = <<-1, -1>>
  /\ name = <<"W", "0", "N", "0">>
  /\ decoded = <<Num(-1), Num(-1)>>

-----------------------------------------------------------------------------
(* C8 *)

\* a digit string without a leading zero, or "0"
Canonical(ds) == Len(ds) = 1 \/ Head(ds) # "0"
\* the coordinates the naming scheme gives <H><n><V><m>
CoordOf(parts) ==
  LET n == DigitsPrefix(parts.nd, 0)
      m == DigitsPrefix(parts.md, 0)
  IN <<Num(IF parts.h \in {"W", "w"} THEN -n - 1 ELSE n),
       Num(IF parts.v \in {"N", "n"} THEN -m - 1 ELSE m)>>

\* C8 as stated: roomNameToXY decodes every valid room name <H><n><V><m>
\* correctly whatever the number of digits of n (1, 2, 3 or more).
C8_AnyDigitCount ==
  (pc = "parsed" /\ Canonical(input.nd)) => decoded = CoordOf(input)

\* C8 as amended: roomNameToXY decodes every room name <H><n><V><m> correctly
\* when n is written without leading zeros and has at most three digits; the
\* index of the vertical letter is derived from the magnitude of n.
C8_UpToThreeDigits ==
  (pc = "parsed" /\ Canonical(input.nd) /\ Len(input.nd) <= 3) =>
    decoded = CoordOf(input)

C8_Witness ==
  /\ pc = "parsed"
  /\ input.nd = <<"1", "0", "0">>
  /\ input.h = "w"
  /\ input.v = "N"
  /\ decoded = <<Num(-101), Num(-1 - DigitsPrefix(input.md, 0))>>

-----------------------------------------------------------------------------
(* C9 *)

\* the walls of the room are exactly one straight line from edge to edge
ColumnAt(w) == WallStructures = Column(w)
RowAt(h) == WallStructures = Row(h)
InnerLines == 1..(RoomMax - 1)
OneLine == Cardinality(WallStructures) = RoomMax + 1

\* the query point is beside the line, the final point on the same side, and
\* the room returned is the neighbour on that side
C9_SideOfColumn(w) ==
  object.pos[1] # w =>
    /\ HasFinalPoint
    /\ (Final[1] < w) = (object.pos[1] < w)
    /\ ReturnedStatusOf(Neighbour(IF object.pos[1] < w THEN -1 ELSE 1, 0))
C9_SideOfRow(h) ==
  object.pos[2] # h =>
    /\ HasFinalPoint
    /\ (Final[2] < h) = (object.pos[2] < h)
    /\ ReturnedStatusOf(Neighbour(0, IF object.pos[2] < h THEN -1 ELSE 1))

\* C9: in a highway room that a straight wall column at x = w (or row at
\* y = h) cuts in two, every walkable query point yields, for every shortest
\* path the search may return, a final point on the query point's side and the
\* neighbour room on that side: west for x < w, east for x > w (north for
\* y < h, south for y > h).
C9_StraightWallSide ==
  (Done /\ InHighway /\ vision /\ OneLine) =>
    /\ \A w \in InnerLines : ColumnAt(w) => C9_SideOfColumn(w)
    /\ \A h \in InnerLines : RowAt(h) => C9_SideOfRow(h)

\* C9 restricted to query points that are not themselves goal exit tiles
C9_StraightWallSideOffGoal ==
  (Done /\ InHighway /\ vision /\ OneLine) =>
    /\ \A w \in InnerLines :
         (ColumnAt(w) /\ object.pos \notin Exits(TOP) \cup Exits(BOTTOM))
           => C9_SideOfColumn(w)
    /\ \A h \in InnerLines :
         (RowAt(h) /\ object.pos \notin Exits(LEFT) \cup Exits(RIGHT))
           => C9_SideOfRow(h)

C9_EastSideReached ==
  /\ Done /\ InHighway /\ vision
  /\ ColumnAt(10)
  /\ object.pos = <<40, 25>>
  /\ frame.lookups = <<Neighbour(1, 0)>>

-----------------------------------------------------------------------------
(* C10 *)

\* the edge whose wall the case of the call takes as reference
C10_ChosenEdge ==
  IF frame.case = "case1" THEN (IF Final[2] = 0 THEN TOP ELSE BOTTOM)
  ELSE IF frame.case = "case2" THEN (IF Final[1] = 0 THEN LEFT ELSE RIGHT)
  ELSE IF Final[1] = 0 THEN LEFT
  ELSE IF Final[1] = RoomMax THEN RIGHT
  ELSE IF Final[2] = 0 THEN TOP
  ELSE BOTTOM

\* C10: whenever getObjectStatus invokes the path search the room has at
\* least one recorded exit wall and a non-empty set of walled edges gives the
\* goals, and the edge chosen from a final point has a recorded exit wall;
\* also for rooms whose only walls are interior.
C10_SearchHasExitWall ==
  (Done /\ Searched) =>
    /\ Recorded # {}
    /\ frame.searches[1].goalDirs # {}
    /\ (Completed /\ HasFinalPoint) => C10_ChosenEdge \in Recorded

\* C10 for the rooms that have a wall on an edge line
C10_WithExitWall ==
  (Done /\ Searched /\ \E s \in WallStructures : exitDirection(s.pos) # 0) =>
    /\ Recorded # {}
    /\ frame.searches[1].goalDirs # {}
    /\ (Completed /\ HasFinalPoint) => C10_ChosenEdge \in Recorded

=============================================================================
